---- MODULE Spec2Model ----
(***************************************************************************)
(* Model of two parts of dynamodb-toolbox:                                 *)
(*   - parseSetExtension, the update-mode extension parser of Set          *)
(*     attributes ($ADD / $DELETE operands) and the generator it returns;  *)
(*   - ListSchema_, the copy-on-write builder of list schemas.             *)
(* JavaScript values are tagged records, so that values of different       *)
(* types can be compared.                                                  *)
(***************************************************************************)
EXTENDS Integers, Sequences, FiniteSets, TLC

VARIABLES
  call,      \* arguments of the parseSetExtension call, or NoCall
  ret,       \* object returned by parseSetExtension, or NoRet
  gen,       \* position of the extensionParser generator
  parser,    \* the operand Parser handle created by the generator
  last,      \* what the last extensionParser.next() produced
  resumes,   \* number of extensionParser.next() calls made by the caller
  schemas,   \* heap of list schema objects: [elements, props] references
  propsHeap, \* heap of props objects
  lastCall,  \* the last builder call: method, argument, receiver, result
  formatCall, \* arguments of the itemZodFormatter call, or NoCall
  formatted   \* what itemZodFormatter returned, or NoRet

extVars == <<call, ret, gen, parser, last, resumes>>
listVars == <<schemas, propsHeap, lastCall>>
zodVars == <<formatCall, formatted>>
vars ==
  <<call, ret, gen, parser, last, resumes, schemas, propsHeap, lastCall,
    formatCall, formatted>>

---------------------------------------------------------------------------
(* Bounds *)

\* largest number of elements of a Set value given as input
MaxSetSize == 2
\* largest number of next() calls a caller makes on one extensionParser
MaxResumes == 4
\* largest number of list schema objects built
MaxSchemas == 3

---------------------------------------------------------------------------
(* JavaScript values *)

undefined == [k |-> "undefined"]
Bool(b) == [k |-> "boolean", v |-> b]
Str(s) == [k |-> "string", v |-> s]
Num(n) == [k |-> "number", v |-> n]
\* a JS Set: its elements in insertion order, without duplicates
SetOf(els) == [k |-> "set", els |-> els]
\* a JS array
Arr(els) == [k |-> "array", els |-> els]
\* an object keyed by symbols: tags maps the symbols it carries to payloads
Obj(tags) == [k |-> "object", tags |-> tags]

Truthy(x) ==
  CASE x.k = "undefined" -> FALSE
    [] x.k = "boolean" -> x.v
    [] x.k = "string" -> x.v # ""
    [] x.k = "number" -> x.v # 0
    [] OTHER -> TRUE

Scalars == {Str("a"), Str("b"), Num(1)}

DistinctSeqs(S, n) ==
  UNION {{s \in [1..m -> S] : \A i, j \in 1..m : i # j => s[i] # s[j]} : m \in 0..n}

SetValues == {SetOf(s) : s \in DistinctSeqs(Scalars, MaxSetSize)}

\* payloads carried under $ADD or $DELETE
Payloads == {undefined} \cup Scalars \cup SetValues

Symbols == {"$ADD", "$DELETE", "$REMOVE"}

\* objects carrying any combination of the $ADD, $DELETE and $REMOVE symbols
Objects ==
  {Obj(t) : t \in UNION {[D -> Payloads] : D \in SUBSET {"$ADD", "$DELETE"}}}
  \cup {Obj(t) : t \in {[x \in D \cup {"$REMOVE"} |->
                           IF x = "$REMOVE" THEN Bool(TRUE) ELSE Str("a")] :
                         D \in SUBSET {"$ADD", "$DELETE"}}}

Inputs == Payloads \cup Objects

\* input[symbol]: property access (undefined when the property is missing)
Get(input, symbol) ==
  IF input.k = "object" /\ symbol \in DOMAIN input.tags
  THEN input.tags[symbol] ELSE undefined

---------------------------------------------------------------------------
(* Set schemas *)

ElementSchemas ==
  {[type |-> "string", transformer |-> "none"],
   [type |-> "string", transformer |-> "prefix"],
   [type |-> "number", transformer |-> "none"]}

\* a Set schema: its element schema and its put-mode default
SetSchemas ==
  {[type |-> "set", elements |-> e, putDefault |-> d] :
     e \in ElementSchemas, d \in {undefined, SetOf(<<>>)}}

ValuePaths ==
  {undefined, Arr(<<>>), Arr(<<Str("tags")>>), Arr(<<Str("tagsList"), Num(0)>>)}

Options ==
  [transform : {undefined, Bool(TRUE), Bool(FALSE)}, valuePath : ValuePaths]

---------------------------------------------------------------------------
(* The Parser engine: new Parser(schema).start(input, options)             *)

NoError == [reason |-> "none"]
SchemaError(reason, path) == [reason |-> reason, path |-> path]

\* Fill: an undefined input takes the mode's default when options.fill is set
Fill(schema, input, opts) ==
  IF Truthy(opts.fill) /\ input = undefined /\ "putDefault" \in DOMAIN schema
  THEN schema.putDefault
  ELSE input

\* index (from 1) of the first element of a Set value that is not of the type
\* of the element schema, or 0
FirstBadElement(elements, els) ==
  IF \E i \in 1..Len(els) : els[i].k # elements.type
  THEN CHOOSE i \in 1..Len(els) :
         /\ els[i].k # elements.type
         /\ \A j \in 1..(i - 1) : els[j].k = elements.type
  ELSE 0

\* Validate: required-ness, then the type check against the node kind,
\* element-wise for a set; the first violation, with its path, or NoError
Validate(schema, value, path) ==
  IF value = undefined THEN SchemaError("RequiredAttributeMissing", path)
  ELSE IF schema.type = "set"
       THEN IF value.k # "set" THEN SchemaError("TypeMismatch", path)
            ELSE LET bad == FirstBadElement(schema.elements, value.els)
                 IN IF bad = 0 THEN NoError
                    ELSE SchemaError("TypeMismatch", Append(path, Num(bad - 1)))
       ELSE IF value.k # schema.type THEN SchemaError("TypeMismatch", path)
            ELSE NoError

\* the encoder of a scalar schema
Encode(schema, value) ==
  IF schema.transformer = "prefix" /\ value.k = "string"
  THEN Str("P#" \o value.v)
  ELSE value

\* Transform: the encoder on scalars, element-wise on a set
Transform(schema, value) ==
  IF schema.type = "set"
  THEN SetOf([i \in 1..Len(value.els) |-> Encode(schema.elements, value.els[i])])
  ELSE Encode(schema, value)

NoParser == [pc |-> "none", resumes |-> 0, filled |-> undefined]

\* start(input, options): the handle, suspended before its first step
ParserStart(schema, input, opts) ==
  [pc |-> "suspendedStart", schema |-> schema, input |-> input, opts |-> opts,
   filled |-> undefined, resumes |-> 0]

\* handle.next(): the handle after the step and what the step produced
ParserNext(p) ==
  LET n == p.resumes + 1 IN
  CASE p.pc = "suspendedStart" ->
         LET filled == Fill(p.schema, p.input, p.opts)
             err == Validate(p.schema, filled, p.opts.valuePath.els)
         IN IF err # NoError
            THEN [parser |-> [p EXCEPT !.pc = "closed", !.resumes = n],
                  out |-> [kind |-> "throw", error |-> err]]
            ELSE IF Truthy(p.opts.transform)
            THEN [parser |-> [p EXCEPT !.pc = "suspendedYield", !.resumes = n,
                                       !.filled = filled],
                  out |-> [kind |-> "result", value |-> filled, done |-> FALSE]]
            ELSE [parser |-> [p EXCEPT !.pc = "closed", !.resumes = n],
                  out |-> [kind |-> "result", value |-> filled, done |-> TRUE]]
    [] p.pc = "suspendedYield" ->
         [parser |-> [p EXCEPT !.pc = "closed", !.resumes = n],
          out |-> [kind |-> "result", value |-> Transform(p.schema, p.filled),
                   done |-> TRUE]]
    [] OTHER ->
         [parser |-> [p EXCEPT !.resumes = n],
          out |-> [kind |-> "result", value |-> undefined, done |-> TRUE]]

---------------------------------------------------------------------------
(* Sentinel predicates *)

\* true iff the input is an object carrying $ADD with a defined payload
isAddition(input) ==
  input.k = "object" /\ "$ADD" \in DOMAIN input.tags /\ input.tags["$ADD"] # undefined

\* true iff the input is an object carrying $DELETE with a defined payload
isDeletion(input) ==
  input.k = "object" /\ "$DELETE" \in DOMAIN input.tags
    /\ input.tags["$DELETE"] # undefined

---------------------------------------------------------------------------
(* parseSetExtension *)

NoCall == [k |-> "none"]
NoRet == [k |-> "none"]
NoGen == [pc |-> "none"]
NoLast == [kind |-> "none"]

\* variant: a missing transform counts as false
TransformOptionDefaultFalse(options) ==
  IF options.transform = undefined THEN Bool(FALSE) ELSE options.transform

\* { transform = true, valuePath }: a missing or undefined transform is true
TransformOption(options) ==
  IF options.transform = undefined THEN Bool(TRUE) ELSE options.transform

\* variant: the $DELETE branch is missing
MatchedSymbolAddOnly(input) ==
  IF isAddition(input) /\ Get(input, "$ADD") # undefined THEN "$ADD" ELSE "none"

\* variant: the $DELETE branch is tried first
MatchedSymbolDeleteFirst(input) ==
  IF isDeletion(input) /\ Get(input, "$DELETE") # undefined THEN "$DELETE"
  ELSE IF isAddition(input) /\ Get(input, "$ADD") # undefined THEN "$ADD"
  ELSE "none"

\* the symbol whose branch parseSetExtension takes for the input, or "none"
MatchedSymbol(input) ==
  IF isAddition(input) /\ Get(input, "$ADD") # undefined THEN "$ADD"
  ELSE IF isDeletion(input) /\ Get(input, "$DELETE") # undefined THEN "$DELETE"
  ELSE "none"

\* the object parseSetExtension returns
parseSetExtension(schema, input, options) ==
  IF MatchedSymbol(input) # "none"
  THEN [isExtension |-> TRUE]
  ELSE [isExtension |-> FALSE, unextendedInput |-> input]

\* variant: the operand is parsed against the element schema
OperandSchemaElements(schema) == schema.elements

\* new Parser(schema): the schema the operand is parsed against
OperandSchema(schema) == schema

\* variant: the symbol is put first
OperandPathSymbolFirst(valuePath, symbol) ==
  Arr(<<Str(symbol)>> \o (IF valuePath = undefined THEN <<>> ELSE valuePath.els))

\* [...(valuePath ?? []), '$ADD'] and [...(valuePath ?? []), '$DELETE']
OperandPath(valuePath, symbol) ==
  Arr((IF valuePath = undefined THEN <<>> ELSE valuePath.els) \o <<Str(symbol)>>)

\* variant: the operand is filled
OperandOptionsFilling(transform, valuePath, symbol) ==
  [fill |-> Bool(TRUE), transform |-> transform,
   valuePath |-> OperandPath(valuePath, symbol)]

\* the options the operand parser is started with
OperandOptions(transform, valuePath, symbol) ==
  [fill |-> Bool(FALSE), transform |-> transform,
   valuePath |-> OperandPath(valuePath, symbol)]

\* { [$ADD]: value } and { [$DELETE]: value }
Wrap(symbol, value) == Obj([x \in {symbol} |-> value])

\* variant: the operand parser is started and resumed once while
\* parseSetExtension runs, before the producer is returned
CallParseSetExtensionEager ==
  /\ call = NoCall
  /\ \E schema \in SetSchemas, input \in Inputs, options \in Options :
       LET symbol == MatchedSymbol(input)
           step == ParserNext(ParserStart(OperandSchema(schema), Get(input, symbol),
                     OperandOptions(TransformOption(options), options.valuePath,
                                    symbol)))
       IN /\ call' = [schema |-> schema, input |-> input, options |-> options]
          /\ ret' = parseSetExtension(schema, input, options)
          /\ gen' = IF symbol # "none"
                    THEN [pc |-> "suspendedStart", symbol |-> symbol,
                          transform |-> TransformOption(options),
                          valuePath |-> options.valuePath]
                    ELSE NoGen
          /\ parser' = IF symbol # "none" THEN step.parser ELSE parser
          /\ last' = IF symbol # "none" /\ step.out.kind = "throw" THEN step.out
                     ELSE last
  /\ UNCHANGED <<resumes, listVars, zodVars>>

CallParseSetExtension ==
  /\ call = NoCall
  /\ \E schema \in SetSchemas, input \in Inputs, options \in Options :
       /\ call' = [schema |-> schema, input |-> input, options |-> options]
       /\ ret' = parseSetExtension(schema, input, options)
       /\ gen' = IF MatchedSymbol(input) # "none"
                 THEN [pc |-> "suspendedStart", symbol |-> MatchedSymbol(input),
                       transform |-> TransformOption(options),
                       valuePath |-> options.valuePath]
                 ELSE NoGen
  /\ UNCHANGED <<parser, last, resumes, listVars, zodVars>>

\* extensionParser, from its start to its first yield or return
FirstStep(yields) ==
  LET started == ParserStart(OperandSchema(call.schema), Get(call.input, gen.symbol),
                             OperandOptions(gen.transform, gen.valuePath, gen.symbol))
      step == ParserNext(started)
  IN /\ parser' = step.parser
     /\ IF step.out.kind = "throw"
        THEN /\ gen' = [gen EXCEPT !.pc = "closed"]
             /\ last' = step.out
        ELSE LET parsedValue == Wrap(gen.symbol, step.out.value)
             IN IF yields
                THEN /\ gen' = [gen EXCEPT !.pc = "suspendedYield"]
                     /\ last' = [kind |-> "result", value |-> parsedValue,
                                 done |-> FALSE]
                ELSE /\ gen' = [gen EXCEPT !.pc = "closed"]
                     /\ last' = [kind |-> "result", value |-> parsedValue,
                                 done |-> TRUE]

\* variant: the first step yields whatever transform is
ExtensionParserFirstAlwaysYields ==
  /\ gen.pc = "suspendedStart"
  /\ resumes < MaxResumes
  /\ resumes' = resumes + 1
  /\ FirstStep(TRUE)
  /\ UNCHANGED <<call, ret, listVars, zodVars>>

\* extensionParser.next() on a generator that has not run yet
ExtensionParserFirst ==
  /\ gen.pc = "suspendedStart"
  /\ resumes < MaxResumes
  /\ resumes' = resumes + 1
  /\ FirstStep(Truthy(gen.transform))
  /\ UNCHANGED <<call, ret, listVars, zodVars>>

\* extensionParser, from its yield to its final return
SecondStep ==
  LET step == ParserNext(parser)
  IN /\ parser' = step.parser
     /\ gen' = [gen EXCEPT !.pc = "closed"]
     /\ last' = IF step.out.kind = "throw" THEN step.out
                ELSE [kind |-> "result", value |-> Wrap(gen.symbol, step.out.value),
                      done |-> TRUE]

\* extensionParser.next() on a generator suspended at its yield
ExtensionParserSecond ==
  /\ gen.pc = "suspendedYield"
  /\ resumes < MaxResumes
  /\ resumes' = resumes + 1
  /\ SecondStep
  /\ UNCHANGED <<call, ret, listVars, zodVars>>

\* variant: a closed generator hands out its last result again
ClosedStepReplays ==
  UNCHANGED <<gen, parser, last>>

\* a generator that returned or threw runs no code when resumed
ClosedStep ==
  /\ last' = [kind |-> "result", value |-> undefined, done |-> TRUE]
  /\ UNCHANGED <<gen, parser>>

\* extensionParser.next() on a generator that has returned or thrown
ExtensionParserExhausted ==
  /\ gen.pc = "closed"
  /\ resumes < MaxResumes
  /\ resumes' = resumes + 1
  /\ ClosedStep
  /\ UNCHANGED <<call, ret, listVars, zodVars>>

InitExt ==
  /\ call = NoCall
  /\ ret = NoRet
  /\ gen = NoGen
  /\ parser = NoParser
  /\ last = NoLast
  /\ resumes = 0

InitList ==
  /\ schemas = <<>>
  /\ propsHeap = <<>>
  /\ lastCall = [method |-> "none"]

InitZod ==
  /\ formatCall = NoCall
  /\ formatted = NoRet

Init == InitExt /\ InitList /\ InitZod

Next ==
  \/ CallParseSetExtension
  \/ ExtensionParserFirst
  \/ ExtensionParserSecond
  \/ ExtensionParserExhausted

Spec == Init /\ [][Next]_vars

---------------------------------------------------------------------------
(* List schemas: list() and the builder methods of ListSchema_ *)

PropNames ==
  {"required", "hidden", "key", "savedAs",
   "keyDefault", "putDefault", "updateDefault",
   "keyLink", "putLink", "updateLink",
   "keyValidator", "putValidator", "updateValidator"}

\* the props object {}
EmptyProps == [p \in PropNames |-> undefined]

\* overwrite(props, changes): a new object, props with the entries of changes
\* written over it
overwrite(props, changes) ==
  [p \in PropNames |-> IF p \in DOMAIN changes THEN changes[p] ELSE props[p]]

\* ifThenElse(condition, then, else)
ifThenElse(condition, then, else) ==
  IF Truthy(condition) THEN then ELSE else

\* the props of schema object i
PropsOf(i) == propsHeap[schemas[i].props]

ElementRefs == {"string()", "number()"}
InitialProps ==
  {EmptyProps,
   overwrite(EmptyProps, [required |-> Str("never")]),
   overwrite(EmptyProps, [key |-> Bool(TRUE), required |-> Str("always")])}
RequiredArgs == {undefined, Str("atLeastOnce"), Str("never"), Str("always")}
BoolArgs == {undefined, Bool(TRUE), Bool(FALSE)}
SavedAsArgs == {undefined, Str("sk")}
DefaultArgs == {Arr(<<>>), Arr(<<Str("a")>>)}
LinkArgs == {Str("link")}
ValidatorArgs == {Str("validator")}
CloneArgs ==
  {undefined, [hidden |-> Bool(TRUE)],
   [required |-> Str("never"), savedAs |-> Str("sk")]}

\* list(elements, props): new ListSchema_(light(elements), props)
list(elements, props) ==
  /\ propsHeap' = Append(propsHeap, props)
  /\ schemas' = Append(schemas, [elements |-> elements, props |-> Len(propsHeap) + 1])
  /\ lastCall' = [method |-> "list", arg |-> undefined, receiver |-> 0,
                  result |-> Len(schemas) + 1]

\* variant: the changes are written into the receiver's props object, which
\* the new schema shares
BuildInPlace(self, method, arg, changes) ==
  /\ propsHeap' = [propsHeap EXCEPT ![schemas[self].props] = overwrite(@, changes)]
  /\ schemas' = Append(schemas, [elements |-> schemas[self].elements,
                                 props |-> schemas[self].props])
  /\ lastCall' = [method |-> method, arg |-> arg, receiver |-> self,
                  result |-> Len(schemas) + 1]

\* new ListSchema_(this.elements, overwrite(this.props, changes)): a new
\* schema object with the receiver's elements and a new props object
Build(self, method, arg, changes) ==
  /\ propsHeap' = Append(propsHeap, overwrite(PropsOf(self), changes))
  /\ schemas' = Append(schemas, [elements |-> schemas[self].elements,
                                 props |-> Len(propsHeap) + 1])
  /\ lastCall' = [method |-> method, arg |-> arg, receiver |-> self,
                  result |-> Len(schemas) + 1]

required(self, nextRequired) ==
  Build(self, "required", nextRequired,
        [required |-> IF nextRequired = undefined THEN Str("atLeastOnce")
                      ELSE nextRequired])

optional(self) == required(self, Str("never"))

\* variant: hidden also tags the attribute as always required
hiddenAlwaysRequired(self, nextHidden) ==
  Build(self, "hidden", nextHidden,
        [hidden |-> IF nextHidden = undefined THEN Bool(TRUE) ELSE nextHidden,
         required |-> Str("always")])

hidden(self, nextHidden) ==
  Build(self, "hidden", nextHidden,
        [hidden |-> IF nextHidden = undefined THEN Bool(TRUE) ELSE nextHidden])

\* variant: key leaves required as it is
keyKeepsRequired(self, nextKey) ==
  Build(self, "key", nextKey,
        [key |-> IF nextKey = undefined THEN Bool(TRUE) ELSE nextKey])

key(self, nextKey) ==
  Build(self, "key", nextKey,
        [key |-> IF nextKey = undefined THEN Bool(TRUE) ELSE nextKey,
         required |-> Str("always")])

savedAs(self, nextSavedAs) ==
  Build(self, "savedAs", nextSavedAs, [savedAs |-> nextSavedAs])

keyDefault(self, nextKeyDefault) ==
  Build(self, "keyDefault", nextKeyDefault, [keyDefault |-> nextKeyDefault])

putDefault(self, nextPutDefault) ==
  Build(self, "putDefault", nextPutDefault, [putDefault |-> nextPutDefault])

updateDefault(self, nextUpdateDefault) ==
  Build(self, "updateDefault", nextUpdateDefault,
        [updateDefault |-> nextUpdateDefault])

\* variant: default writes putDefault whatever the receiver's key is
defaultAlwaysPut(self, nextDefault) ==
  Build(self, "default", nextDefault, [putDefault |-> nextDefault])

\* default, link and validate construct both candidate schemas and ifThenElse
\* returns one of them; the other is unreachable and is left out of the heap
default(self, nextDefault) ==
  Build(self, "default", nextDefault,
        ifThenElse(PropsOf(self).key, [keyDefault |-> nextDefault],
                   [putDefault |-> nextDefault]))

keyLink(self, nextKeyLink) ==
  Build(self, "keyLink", nextKeyLink, [keyLink |-> nextKeyLink])

putLink(self, nextPutLink) ==
  Build(self, "putLink", nextPutLink, [putLink |-> nextPutLink])

updateLink(self, nextUpdateLink) ==
  Build(self, "updateLink", nextUpdateLink, [updateLink |-> nextUpdateLink])

link(self, nextLink) ==
  Build(self, "link", nextLink,
        ifThenElse(PropsOf(self).key, [keyLink |-> nextLink],
                   [putLink |-> nextLink]))

keyValidate(self, nextKeyValidator) ==
  Build(self, "keyValidate", nextKeyValidator,
        [keyValidator |-> nextKeyValidator])

putValidate(self, nextPutValidator) ==
  Build(self, "putValidate", nextPutValidator,
        [putValidator |-> nextPutValidator])

updateValidate(self, nextUpdateValidator) ==
  Build(self, "updateValidate", nextUpdateValidator,
        [updateValidator |-> nextUpdateValidator])

validate(self, nextValidator) ==
  Build(self, "validate", nextValidator,
        ifThenElse(PropsOf(self).key, [keyValidator |-> nextValidator],
                   [putValidator |-> nextValidator]))

\* clone(nextProps = {})
clone(self, nextProps) ==
  Build(self, "clone", nextProps,
        IF nextProps = undefined THEN <<>> ELSE nextProps)

\* the schema objects a builder method can be called on
Receivers == IF Len(schemas) < MaxSchemas THEN 1..Len(schemas) ELSE {}

CallList ==
  /\ schemas = <<>>
  /\ \E elements \in ElementRefs, props \in InitialProps : list(elements, props)
  /\ UNCHANGED <<extVars, zodVars>>

CallRequired ==
  /\ \E self \in Receivers, a \in RequiredArgs : required(self, a)
  /\ UNCHANGED <<extVars, zodVars>>

CallOptional ==
  /\ \E self \in Receivers : optional(self)
  /\ UNCHANGED <<extVars, zodVars>>

CallHidden ==
  /\ \E self \in Receivers, a \in BoolArgs : hidden(self, a)
  /\ UNCHANGED <<extVars, zodVars>>

CallKey ==
  /\ \E self \in Receivers, a \in BoolArgs : key(self, a)
  /\ UNCHANGED <<extVars, zodVars>>

CallSavedAs ==
  /\ \E self \in Receivers, a \in SavedAsArgs : savedAs(self, a)
  /\ UNCHANGED <<extVars, zodVars>>

CallKeyDefault ==
  /\ \E self \in Receivers, a \in DefaultArgs : keyDefault(self, a)
  /\ UNCHANGED <<extVars, zodVars>>

CallPutDefault ==
  /\ \E self \in Receivers, a \in DefaultArgs : putDefault(self, a)
  /\ UNCHANGED <<extVars, zodVars>>

CallUpdateDefault ==
  /\ \E self \in Receivers, a \in DefaultArgs : updateDefault(self, a)
  /\ UNCHANGED <<extVars, zodVars>>

CallDefault ==
  /\ \E self \in Receivers, a \in DefaultArgs : default(self, a)
  /\ UNCHANGED <<extVars, zodVars>>

CallKeyLink ==
  /\ \E self \in Receivers, a \in LinkArgs : keyLink(self, a)
  /\ UNCHANGED <<extVars, zodVars>>

CallPutLink ==
  /\ \E self \in Receivers, a \in LinkArgs : putLink(self, a)
  /\ UNCHANGED <<extVars, zodVars>>

CallUpdateLink ==
  /\ \E self \in Receivers, a \in LinkArgs : updateLink(self, a)
  /\ UNCHANGED <<extVars, zodVars>>

CallLink ==
  /\ \E self \in Receivers, a \in LinkArgs : link(self, a)
  /\ UNCHANGED <<extVars, zodVars>>

CallKeyValidate ==
  /\ \E self \in Receivers, a \in ValidatorArgs : keyValidate(self, a)
  /\ UNCHANGED <<extVars, zodVars>>

CallPutValidate ==
  /\ \E self \in Receivers, a \in ValidatorArgs : putValidate(self, a)
  /\ UNCHANGED <<extVars, zodVars>>

CallUpdateValidate ==
  /\ \E self \in Receivers, a \in ValidatorArgs : updateValidate(self, a)
  /\ UNCHANGED <<extVars, zodVars>>

CallValidate ==
  /\ \E self \in Receivers, a \in ValidatorArgs : validate(self, a)
  /\ UNCHANGED <<extVars, zodVars>>

CallClone ==
  /\ \E self \in Receivers, a \in CloneArgs : clone(self, a)
  /\ UNCHANGED <<extVars, zodVars>>

NextList ==
  \/ CallList
  \/ CallRequired
  \/ CallOptional
  \/ CallHidden
  \/ CallKey
  \/ CallSavedAs
  \/ CallKeyDefault
  \/ CallPutDefault
  \/ CallUpdateDefault
  \/ CallDefault
  \/ CallKeyLink
  \/ CallPutLink
  \/ CallUpdateLink
  \/ CallLink
  \/ CallKeyValidate
  \/ CallPutValidate
  \/ CallUpdateValidate
  \/ CallValidate
  \/ CallClone

SpecList == Init /\ [][NextList]_vars

---------------------------------------------------------------------------
(* itemZodFormatter *)

AttributeNames == {"pk", "name", "secret"}

\* an attribute of an item schema, with its props.hidden
Attributes ==
  {[type |-> "string", props |-> [hidden |-> h]] :
     h \in {undefined, Bool(TRUE), Bool(FALSE)}}

\* item schemas: attributes maps the attribute names to the attributes
ItemSchemas ==
  {[type |-> "item", attributes |-> a] :
     a \in UNION {[D -> Attributes] : D \in SUBSET AttributeNames}}

ZodFormatterOptions ==
  [format : {undefined, Bool(TRUE), Bool(FALSE)},
   transform : {undefined, Bool(TRUE), Bool(FALSE)},
   defined : {undefined, Bool(TRUE), Bool(FALSE)}]

\* const { format = true } = options
FormatOption(options) ==
  IF options.format = undefined THEN Bool(TRUE) ELSE options.format

\* variant: hidden attributes are left out whatever format is
displayedAttrEntriesAlwaysFiltered(schema, format) ==
  {n \in DOMAIN schema.attributes : ~Truthy(schema.attributes[n].props.hidden)}

\* the names of the attributes that are displayed
displayedAttrEntries(schema, format) ==
  IF Truthy(format)
  THEN {n \in DOMAIN schema.attributes : ~Truthy(schema.attributes[n].props.hidden)}
  ELSE DOMAIN schema.attributes

\* { ...options, defined: false }
AttributeOptions(options) == [options EXCEPT !.defined = Bool(FALSE)]

\* schemaZodFormatter(attribute, options): kept as the pair of its arguments
schemaZodFormatter(attribute, options) ==
  [zod |-> "schema", attribute |-> attribute, options |-> options]

\* z.object(shape)
zObject(shape) == [zod |-> "object", shape |-> shape]

\* withAttributeNameDecoding(schema, options, zodSchema): kept as its
\* arguments, the object schema it is given being its inner schema
withAttributeNameDecoding(schema, options, zodSchema) ==
  [zod |-> "withAttributeNameDecoding", schema |-> schema, options |-> options,
   inner |-> zodSchema]

itemZodFormatter(schema, options) ==
  withAttributeNameDecoding(schema, options,
    zObject([attributeName \in displayedAttrEntries(schema, FormatOption(options)) |->
               schemaZodFormatter(schema.attributes[attributeName],
                                  AttributeOptions(options))]))

CallItemZodFormatter ==
  /\ formatCall = NoCall
  /\ \E schema \in ItemSchemas, options \in ZodFormatterOptions :
       /\ formatCall' = [schema |-> schema, options |-> options]
       /\ formatted' = itemZodFormatter(schema, options)
  /\ UNCHANGED <<extVars, listVars>>

NextZod == CallItemZodFormatter

SpecZod == Init /\ [][NextZod]_vars

---------------------------------------------------------------------------
(* Properties of parseSetExtension *)

\* the input carries the symbol with a payload that is not undefined
Carries(input, symbol) ==
  /\ input.k = "object"
  /\ symbol \in DOMAIN input.tags
  /\ input.tags[symbol] # undefined

Recognized ==
  call # NoCall /\ (Carries(call.input, "$ADD") \/ Carries(call.input, "$DELETE"))

\* the symbol of the recognized input ($ADD when it carries both)
InputSymbol == IF Carries(call.input, "$ADD") THEN "$ADD" ELSE "$DELETE"

Operand == call.input.tags[InputSymbol]

BasePath ==
  IF call.options.valuePath = undefined THEN <<>> ELSE call.options.valuePath.els

\* v is a Set whose elements all have the type of the schema's elements
ValidSet(schema, v) ==
  v.k = "set" /\ \A i \in 1..Len(v.els) : v.els[i].k = schema.elements.type

\* v has the type of the schema's elements
ValidElement(schema, v) == v.k = schema.elements.type

\* C1: for a recognized input whose operand the parser accepts, with transform
\* true or omitted: before any resume the producer has not run; resume 1
\* yields the filled operand under the input's symbol and leaves the producer
\* suspended (not done); resume 2 returns the transformed operand under the
\* same symbol and closes the producer.
C1_TwoResumes ==
  (Recognized /\ call.options.transform # Bool(FALSE)
     /\ ValidSet(call.schema, Operand)) =>
    /\ resumes = 0 => gen.pc = "suspendedStart"
    /\ resumes = 1 =>
         /\ gen.pc = "suspendedYield"
         /\ last = [kind |-> "result", value |-> Wrap(InputSymbol, Operand),
                    done |-> FALSE]
    /\ resumes >= 2 => gen.pc = "closed"
    /\ resumes = 2 =>
         last = [kind |-> "result",
                 value |-> Wrap(InputSymbol, Transform(call.schema, Operand)),
                 done |-> TRUE]

\* C1 witness: transform omitted, two resumes made, and the transformed
\* operand differs from the filled one
C1_Witness ==
  /\ Recognized
  /\ call.options.transform = undefined
  /\ resumes = 2
  /\ last.kind = "result" /\ last.done
  /\ last.value = Wrap("$DELETE", SetOf(<<Str("P#a"), Str("P#b")>>))

\* C2: for a recognized input whose operand the parser accepts, with transform
\* false: resume 1 returns the parsed operand under the input's symbol as the
\* final value (done) and closes the producer; the operand parser is resumed
\* exactly once and never reaches its transform step.
C2_SingleResume ==
  (Recognized /\ call.options.transform = Bool(FALSE)) =>
    /\ parser.resumes <= 1
    /\ parser.pc # "suspendedYield"
    /\ resumes >= 1 => gen.pc = "closed" /\ parser.resumes = 1
    /\ (resumes = 1 /\ ValidSet(call.schema, Operand)) =>
         last = [kind |-> "result", value |-> Wrap(InputSymbol, Operand),
                 done |-> TRUE]

\* C2 witness: transform false, a later resume made, the parser resumed once
C2_Witness ==
  /\ Recognized
  /\ call.options.transform = Bool(FALSE)
  /\ ValidSet(call.schema, Operand) /\ Operand.els # <<>>
  /\ call.schema.elements.transformer = "prefix"
  /\ resumes = 2
  /\ parser.resumes = 1

\* C3 as stated: the operand is parsed against the set's element schema
C3_ElementSchema ==
  parser.pc # "none" => parser.schema = call.schema.elements

\* C3 amended: the operand of a recognized input is parsed against the set
\* schema itself, and the value parsed is the payload of the input's symbol
C3_SetSchemaItself ==
  parser.pc # "none" =>
    /\ Recognized
    /\ parser.schema = call.schema
    /\ parser.input = Operand

\* C3 witness: an operand parser started for an $ADD input
C3_Witness ==
  /\ parser.pc # "none"
  /\ InputSymbol = "$ADD"
  /\ parser.schema.type = "set"

\* C4 as stated: an operand valid against the element schema, under $ADD with
\* transform false, comes back as exactly {ADD: v} from resume 1
C4_ElementOperandReturned ==
  (Recognized /\ InputSymbol = "$ADD" /\ call.options.transform = Bool(FALSE)
     /\ ValidElement(call.schema, Operand) /\ resumes = 1) =>
    last = [kind |-> "result", value |-> Wrap("$ADD", Operand), done |-> TRUE]

\* C4 amended: an operand valid against the set schema (a Set of valid
\* elements), under $ADD with transform false, comes back as exactly {ADD: v}
\* from resume 1; and every operand parser, $ADD or $DELETE, is started with
\* fill false
C4_SetOperandReturned ==
  /\ parser.pc # "none" => parser.opts.fill = Bool(FALSE)
  /\ (Recognized /\ InputSymbol = "$ADD" /\ call.options.transform = Bool(FALSE)
        /\ ValidSet(call.schema, Operand) /\ resumes = 1) =>
       last = [kind |-> "result", value |-> Wrap("$ADD", Operand), done |-> TRUE]

\* C4 witness: {ADD: Set(a, b)} returned by resume 1 with transform false, on
\* a schema that has a default and an encoder
C4_Witness ==
  /\ Recognized
  /\ call.options.transform = Bool(FALSE)
  /\ call.schema.putDefault # undefined
  /\ call.schema.elements.transformer = "prefix"
  /\ resumes = 1
  /\ last.kind = "result"
  /\ last.value = Wrap("$ADD", SetOf(<<Str("a"), Str("b")>>))

\* the last resume raised TypeMismatch at the base path followed by the symbol
TypeMismatchAtSymbol ==
  last = [kind |-> "throw",
          error |-> SchemaError("TypeMismatch",
                                BasePath \o <<Str(InputSymbol)>>)]

\* C5 as stated: an operand that fails the element schema's type check makes
\* resume 1 raise TypeMismatch at the base path followed by the symbol
C5_ElementMismatchPath ==
  (Recognized /\ ~ValidElement(call.schema, Operand) /\ resumes = 1) =>
    TypeMismatchAtSymbol

\* C5 amended: an operand that fails the set schema's own type check (it is
\* not a Set) makes resume 1 raise TypeMismatch at the base path followed by
\* the symbol; and every operand is parsed with the path made of the caller's
\* valuePath (empty when omitted) followed by the symbol alone
C5_SetMismatchPath ==
  /\ parser.pc # "none" =>
       parser.opts.valuePath = Arr(BasePath \o <<Str(InputSymbol)>>)
  /\ (Recognized /\ Operand.k # "set" /\ resumes = 1) => TypeMismatchAtSymbol

\* C5 witness: {DELETE: 1} on a Set of strings under a two-segment base path
C5_Witness ==
  /\ Recognized
  /\ InputSymbol = "$DELETE"
  /\ Operand = Num(1)
  /\ call.schema.elements.type = "string"
  /\ resumes = 1
  /\ last.kind = "throw"
  /\ last.error.path = <<Str("tagsList"), Num(0), Str("$DELETE")>>

\* C6: isExtension is true iff the input carries $ADD or $DELETE with a
\* payload that is not undefined; otherwise the returned object is
\* {isExtension: false, unextendedInput: input} with the input as received
C6_Classification ==
  call # NoCall =>
    /\ ret.isExtension <=> Recognized
    /\ ~ret.isExtension =>
         ret = [isExtension |-> FALSE, unextendedInput |-> call.input]
    /\ ret.isExtension <=> gen.pc # "none"

\* C6 witness: a wrapper whose only payload is undefined is passed through
C6_Witness ==
  /\ call # NoCall
  /\ call.input = Obj([x \in {"$DELETE"} |-> undefined])
  /\ ret = [isExtension |-> FALSE, unextendedInput |-> call.input]

\* C9 as stated: a resume of an exhausted producer is rejected
C9_ExhaustedResumeRejected ==
  [][(gen.pc = "closed" /\ resumes' = resumes + 1) => last'.kind = "throw"]_vars

\* C9 amended: a resume of an exhausted producer is not rejected; it returns
\* {value: undefined, done: true}, never an operation wrapper, leaves the
\* producer exhausted and does not resume the operand parser
C9_ExhaustedResumeInert ==
  [][(gen.pc = "closed" /\ resumes' = resumes + 1) =>
       /\ last' = [kind |-> "result", value |-> undefined, done |-> TRUE]
       /\ gen' = gen
       /\ parser' = parser]_vars

\* C9 witness: transform true, the two resumes made and a third one after
\* them, which returned undefined
C9_Witness ==
  /\ Recognized
  /\ call.options.transform = Bool(TRUE)
  /\ ValidSet(call.schema, Operand)
  /\ resumes = 3
  /\ parser.resumes = 2
  /\ last = [kind |-> "result", value |-> undefined, done |-> TRUE]

\* the input carries both an $ADD and a $DELETE payload that are not undefined
CarriesBoth ==
  call # NoCall /\ Carries(call.input, "$ADD") /\ Carries(call.input, "$DELETE")

\* C14: an input carrying both payloads is an addition only: the producer runs
\* the $ADD branch, the operand parsed is the $ADD payload, every value a
\* resume hands out is undefined or an object with the single entry $ADD, and
\* an error is raised exactly when the $ADD payload is refused by the parser,
\* below the $ADD segment, whatever the $DELETE payload is
C14_AdditionOnly ==
  CarriesBoth =>
    /\ ret = [isExtension |-> TRUE]
    /\ gen.symbol = "$ADD"
    /\ parser.pc # "none" =>
         /\ parser.input = call.input.tags["$ADD"]
         /\ parser.opts.valuePath = Arr(BasePath \o <<Str("$ADD")>>)
    /\ (last.kind = "result" /\ last.value # undefined) =>
         /\ last.value.k = "object"
         /\ DOMAIN last.value.tags = {"$ADD"}
    /\ resumes = 1 =>
         (last.kind = "throw" <=> ~ValidSet(call.schema, call.input.tags["$ADD"]))
    /\ last.kind = "throw" =>
         /\ last.error.reason = "TypeMismatch"
         /\ SubSeq(last.error.path, 1, Len(BasePath) + 1) =
              BasePath \o <<Str("$ADD")>>

\* C14 witness: {ADD: Set(a), DELETE: 1} on a Set of strings, both resumes
\* made without an error although the $DELETE payload is no Set
C14_Witness ==
  /\ CarriesBoth
  /\ call.input.tags["$DELETE"] = Num(1)
  /\ call.schema.elements = [type |-> "string", transformer |-> "prefix"]
  /\ resumes = 2
  /\ last = [kind |-> "result", value |-> Wrap("$ADD", SetOf(<<Str("P#a")>>)),
             done |-> TRUE]

\* C13: parseSetExtension itself parses nothing and raises nothing: until
\* the first resume no operand parser exists and nothing was raised, whatever
\* the input; an operand the parser refuses is reported by resume 1; with
\* transform true or omitted, resume 1 leaves the operand parser suspended
\* before its transform step, which runs only in resume 2; the operand parser
\* is never resumed more often than the producer; and no step after the call
\* changes the arguments of the call, the caller's valuePath array among them
C13_LazyParsing ==
  /\ [](call # NoCall =>
          /\ resumes = 0 => parser = NoParser /\ last = NoLast
          /\ parser.resumes <= resumes
          /\ (Recognized /\ resumes = 1 /\ ~ValidSet(call.schema, Operand)) =>
               last.kind = "throw"
          /\ (Recognized /\ resumes = 1 /\ ValidSet(call.schema, Operand)
                /\ call.options.transform # Bool(FALSE)) =>
               /\ parser.pc = "suspendedYield"
               /\ parser.resumes = 1
               /\ last.value = Wrap(InputSymbol, Operand))
  /\ [][call # NoCall => call' = call]_vars

\* C13 witness: {DELETE: 'a'} with a valuePath was classified as an extension
\* without an error, and the first resume then raised the TypeMismatch
C13_Witness ==
  /\ Recognized
  /\ Operand = Str("a")
  /\ call.options.valuePath = Arr(<<Str("tags")>>)
  /\ ret = [isExtension |-> TRUE]
  /\ resumes = 1
  /\ parser.resumes = 1
  /\ last.kind = "throw"

---------------------------------------------------------------------------
(* Properties of the list schema builder *)

\* the props of the receiver and of the result of the last builder call
ReceiverProps == PropsOf(lastCall.receiver)
ResultProps == PropsOf(lastCall.result)

\* the properties in which the result of the last call differs from its receiver
Differing == {p \in PropNames : ResultProps[p] # ReceiverProps[p]}

\* the builder-style mutators (clone and list take whole props objects)
Mutators ==
  {"required", "hidden", "key", "savedAs",
   "keyDefault", "putDefault", "updateDefault", "default",
   "keyLink", "putLink", "updateLink", "link",
   "keyValidate", "putValidate", "updateValidate", "validate"}

\* the properties a mutator is named after
NamedProps(method) ==
  CASE method = "default" -> {"keyDefault", "putDefault"}
    [] method = "link" -> {"keyLink", "putLink"}
    [] method = "validate" -> {"keyValidator", "putValidator"}
    [] method = "keyValidate" -> {"keyValidator"}
    [] method = "putValidate" -> {"putValidator"}
    [] method = "updateValidate" -> {"updateValidator"}
    [] OTHER -> {method}

\* the value a mutator writes for its argument
Written(method, arg) ==
  IF arg # undefined THEN arg
  ELSE IF method = "required" THEN Str("atLeastOnce")
  ELSE IF method \in {"hidden", "key"} THEN Bool(TRUE)
  ELSE undefined

\* C7: a builder call changes no schema object that existed before it:
\* each keeps its elements reference, its props reference and the content of
\* its props; and every schema has the elements of the original
C7_ReceiverNeverMutated ==
  [][/\ \A i \in 1..Len(schemas) :
          /\ Len(schemas') >= i
          /\ schemas'[i] = schemas[i]
          /\ propsHeap'[schemas[i].props] = propsHeap[schemas[i].props]
     /\ \A i \in 1..Len(schemas') : schemas'[i].elements = schemas'[1].elements
    ]_vars

\* C7 witness: two schemas derived from the original, both with other props
\* than the original, the second derived by key() straight from the original
C7_Witness ==
  /\ Len(schemas) = 3
  /\ lastCall.method = "key" /\ lastCall.receiver = 1
  /\ PropsOf(2) # PropsOf(1)
  /\ PropsOf(3) # PropsOf(1)
  /\ PropsOf(1).key = undefined

\* C8 as stated: the result of a mutator equals its receiver in every
\* property but the one the mutator names
C8_OnePropertyOverwritten ==
  lastCall.method \in Mutators =>
    /\ Differing \subseteq NamedProps(lastCall.method)
    /\ Cardinality(Differing) <= 1

\* C8 amended: the result of a mutator equals its receiver in every property
\* but the one the mutator names, which holds the argument; except that key
\* writes two properties, key and required, the latter set to 'always'
C8_OnePropertyOrKeyAndRequired ==
  lastCall.method \in Mutators =>
    /\ Differing \subseteq
         (IF lastCall.method = "key" THEN {"key", "required"}
          ELSE NamedProps(lastCall.method))
    /\ lastCall.method # "key" => Cardinality(Differing) <= 1
    /\ lastCall.method = "key" => ResultProps.required = Str("always")
    /\ \E p \in NamedProps(lastCall.method) :
         ResultProps[p] = Written(lastCall.method, lastCall.arg)

\* C8 witness: a key() call whose result differs from its receiver in both
\* key and required
C8_Witness ==
  /\ lastCall.method = "key"
  /\ Differing = {"key", "required"}

\* C10: the result of key(k) has key = k (true when k is omitted) and
\* required = 'always', whatever k and the receiver's required are
C10_KeyAlwaysRequired ==
  lastCall.method = "key" =>
    /\ ResultProps.key = (IF lastCall.arg = undefined THEN Bool(TRUE) ELSE lastCall.arg)
    /\ ResultProps.required = Str("always")

\* C10 witness: key(false) on a schema that was optional
C10_Witness ==
  /\ lastCall.method = "key"
  /\ lastCall.arg = Bool(FALSE)
  /\ ReceiverProps.required = Str("never")
  /\ ResultProps.required = Str("always")

\* the key-mode, put-mode and update-mode property of default, link, validate
KeyModeProp(method) ==
  CASE method = "default" -> "keyDefault"
    [] method = "link" -> "keyLink"
    [] method = "validate" -> "keyValidator"

PutModeProp(method) ==
  CASE method = "default" -> "putDefault"
    [] method = "link" -> "putLink"
    [] method = "validate" -> "putValidator"

UpdateModeProp(method) ==
  CASE method = "default" -> "updateDefault"
    [] method = "link" -> "updateLink"
    [] method = "validate" -> "updateValidator"

\* the receiver's props.key is true (the truthy value it can hold)
ReceiverIsKey == ReceiverProps.key = Bool(TRUE)

\* C11: default, link and validate write their argument to the key-mode
\* property when the receiver's key is truthy and to the put-mode property
\* otherwise; the other of the two and the update-mode property keep the
\* receiver's values, as does every other property; and key() leaves all
\* nine default, link and validator properties as they were, so a put-mode
\* value written before key() stays in the put-mode property
C11_KeyOrPutMode ==
  /\ lastCall.method \in {"default", "link", "validate"} =>
       LET written == IF ReceiverIsKey THEN KeyModeProp(lastCall.method)
                      ELSE PutModeProp(lastCall.method)
       IN /\ ResultProps[written] = lastCall.arg
          /\ \A p \in PropNames \ {written} : ResultProps[p] = ReceiverProps[p]
          /\ ResultProps[UpdateModeProp(lastCall.method)] =
               ReceiverProps[UpdateModeProp(lastCall.method)]
  /\ lastCall.method = "key" =>
       \A p \in PropNames \ {"key", "required"} : ResultProps[p] = ReceiverProps[p]

\* C11 witness: default(v) on a schema that is no key wrote putDefault, and
\* key() on the result left v in putDefault and keyDefault unset
C11_Witness ==
  /\ Len(schemas) = 3
  /\ PropsOf(1).key = undefined
  /\ PropsOf(2).putDefault = Arr(<<Str("a")>>)
  /\ PropsOf(2).keyDefault = undefined
  /\ lastCall.method = "key" /\ lastCall.receiver = 2
  /\ ResultProps.key = Bool(TRUE)
  /\ ResultProps.putDefault = Arr(<<Str("a")>>)
  /\ ResultProps.keyDefault = undefined

\* C11 second case: default(v) on a key schema wrote keyDefault alone
C11_KeyCase ==
  /\ lastCall.method = "default"
  /\ ReceiverIsKey
  /\ ResultProps.keyDefault = lastCall.arg
  /\ ResultProps.putDefault = undefined

---------------------------------------------------------------------------
(* Properties of itemZodFormatter *)

\* C12: the object schema itemZodFormatter builds has for keys the names of
\* all attributes when options.format is false, and the names of the
\* attributes whose props.hidden is not true when format is true or omitted;
\* each key holds the formatter of the attribute of that name, made with the
\* caller's format and transform options and with defined false
C12_DisplayedAttributes ==
  formatCall # NoCall =>
    LET attributes == formatCall.schema.attributes
        shape == formatted.inner.shape
    IN /\ formatted.inner.zod = "object"
       /\ DOMAIN shape =
            (IF formatCall.options.format = Bool(FALSE)
             THEN DOMAIN attributes
             ELSE {n \in DOMAIN attributes :
                     attributes[n].props.hidden \in {undefined, Bool(FALSE)}})
       /\ \A n \in DOMAIN shape :
            /\ shape[n].attribute = attributes[n]
            /\ shape[n].options =
                 [format |-> formatCall.options.format,
                  transform |-> formatCall.options.transform,
                  defined |-> Bool(FALSE)]

\* C12 witness: format false and defined true, and a hidden attribute among
\* three is a key of the object, formatted with defined false
C12_Witness ==
  /\ formatCall # NoCall
  /\ formatCall.options.format = Bool(FALSE)
  /\ formatCall.options.defined = Bool(TRUE)
  /\ DOMAIN formatCall.schema.attributes = AttributeNames
  /\ formatCall.schema.attributes["secret"].props.hidden = Bool(TRUE)
  /\ formatCall.schema.attributes["name"].props.hidden = undefined
  /\ DOMAIN formatted.inner.shape = AttributeNames
  /\ formatted.inner.shape["secret"].options.defined = Bool(FALSE)

\* C12 second case: format omitted, the hidden attribute is no key
C12_HiddenLeftOut ==
  /\ formatCall # NoCall
  /\ formatCall.options.format = undefined
  /\ DOMAIN formatCall.schema.attributes = AttributeNames
  /\ formatCall.schema.attributes["secret"].props.hidden = Bool(TRUE)
  /\ DOMAIN formatted.inner.shape = {"pk", "name"}

====
